---- MODULE Spec2Model ----
(***************************************************************************)
(* Model of the InvoicePDF backend (the Express server whose source is     *)
(* carried in README.md): the per-user rate limiter (checkRateLimit), the  *)
(* create-invoice handler (POST /api/invoices) and the background PDF job  *)
(* (the setTimeout callback and generatePDF).                              *)
(*                                                                         *)
(* Every `await` on storage is a suspension point, so a handler is a       *)
(* sequence of atomic steps, one per stretch of synchronous code between   *)
(* two awaits.  Times are milliseconds, as in the code.                    *)
(***************************************************************************)
EXTENDS Integers, Sequences, FiniteSets, TLC

\* ---------------------------------------------------------------- bounds
Users == {"A", "B"}          \* authenticated user ids (req.user.userId)
Procs == {1, 2}              \* request slots that can be in flight at once
Steps == {0, 500, 59500}     \* how far the wall clock moved between two reads
JobSteps == {0}              \* the same, in a job-runner run (no task reads the clock)
MaxCalls == 8                \* requests issued in a sequential run
MaxConcCalls == 2            \* requests issued in a concurrent run
MaxJobs == 2                 \* requests issued in a job-runner run
MaxAuthCalls == 2            \* POST requests issued in a run with bad tokens
MaxItems == 2                \* line items of the invoice form
MaxConns == 2                \* SSE connections opened in a hub run
HubJobs == 1                 \* invoices already created when a hub run starts
ReadJobs == 2                \* invoices already created when a read run starts
Gap == 500                   \* ms between the requests that created them
Descriptions == {"", "Work"}  \* texts typed into a description field
Quantities == {0, 1, 2}      \* numbers typed into a quantity field
Rates == {0, 5}              \* numbers typed into a rate field
Taxes == {0, 3}              \* numbers typed into the tax field
SeqUser == "A"               \* the user whose requests a sequential run issues

\* ------------------------------------------------------ program constants
LIMIT == 5                   \* if (userRateLimit.count >= 5)
WINDOW_MS == 60000           \* now.getTime() + 60000
MS_PER_SEC == 1000           \* (resetTime - now) / 1000

VARIABLES
  clock,       \* last value returned by new Date() / Date.now()
  rateLimits,  \* the RateLimit collection, in insertion order (index = _id)
  invoices,    \* the Invoice collection, in insertion order (index = _id)
  req,         \* per request slot: position in checkRateLimit / the handler
  resp,        \* per request slot: the HTTP response of its last request
  job,         \* per invoice: the background task and its in-memory document
  calls,       \* number of requests issued so far
  recent,      \* per user: `now` of the requests admitted in the last 60 s
  files,       \* the names of the files in the pdfs directory
  sseClients,  \* the Map userId -> response stream, as a set of <<key, value>>
  conn,        \* per SSE connection: its user, its state, the events written,
               \* and the tasks that had started when it was opened
  published,   \* the events passed to sendSSEUpdate so far
  out,         \* the response of the last GET request
  dash,        \* the dashboard page one user has open in a browser
  form         \* the invoice form of that page, and the payload it submitted

vars == <<clock, rateLimits, invoices, req, resp, job, calls, recent,
          files, sseClients, conn, published, out, dash, form>>

\* what the create-invoice handlers leave alone
getVars == <<files, sseClients, conn, published, out, dash, form>>

\* what the background task leaves alone unless it publishes
hubVars == <<sseClients, conn, published>>

\* ----------------------------------------------------------------- helpers
NoDoc == [id |-> 0, count |-> 0, resetTime |-> 0, isNew |-> FALSE, resetMod |-> FALSE]
Idle == [pc |-> "idle", user |-> "A", now |-> 0, doc |-> NoDoc]
NoResp == [code |-> 0, timeLeft |-> 0]
NoPath == 0                  \* pdfPath: { type: String } left unset
NoOut == [op |-> "none", user |-> "A", id |-> 0, code |-> 0, body |-> <<>>]

\* useState of InvoiceForm: one empty line item, no tax; nothing submitted
NewItem == [description |-> "", quantity |-> 1, rate |-> 0, amount |-> 0,
            quantityTouched |-> FALSE, rateTouched |-> FALSE]

NoPayload == [lineItems |-> <<>>, subtotal |-> 0, tax |-> 0, total |-> 0]

NewForm == [lineItems |-> <<NewItem>>, tax |-> 0, taxTouched |-> FALSE,
            submitted |-> FALSE, payload |-> NoPayload]

\* no dashboard is open: no EventSource, nothing shown, no request under way
NoDash == [es |-> 0, readyState |-> "none", read |-> 0, shown |-> <<>>,
           fetching |-> FALSE]

\* Math.ceil(x / 1000) for an integer x (\div rounds towards minus infinity)
CeilDiv(x, n) == (x + n - 1) \div n

\* Math.ceil((userRateLimit.resetTime - now) / 1000)
TimeLeft(resetTime, now) == CeilDiv(resetTime - now, MS_PER_SEC)

\* now > userRateLimit.resetTime
WindowPassed(now, resetTime) == now > resetTime

\* RateLimit.findOne({ userId }): the ids of the documents the filter matches
Matching(u) == {i \in 1..Len(rateLimits) : rateLimits[i].userId = u}

\* the document checkRateLimit works on after the miss / reset branches
Loaded(u, i, now) ==
  IF i = 0
  THEN [id |-> 0, count |-> 0, resetTime |-> now + WINDOW_MS,
        isNew |-> TRUE, resetMod |-> FALSE]
  ELSE LET r == rateLimits[i] IN
       IF WindowPassed(now, r.resetTime)
       THEN [id |-> i, count |-> 0, resetTime |-> now + WINDOW_MS,
             isNew |-> FALSE, resetMod |-> TRUE]
       ELSE [id |-> i, count |-> r.count, resetTime |-> r.resetTime,
             isNew |-> FALSE, resetMod |-> FALSE]

\* variants of OverLimit with the comparison off by one
OverLimit_Late(d) == d.count > LIMIT

OverLimit_Early(d) == d.count >= LIMIT - 1

\* userRateLimit.count >= 5
OverLimit(d) == d.count >= LIMIT

\* variant of SavedRateLimits that increments the stored count ($inc)
SavedRateLimits_Inc(u, d) ==
  IF d.isNew
  THEN Append(rateLimits, [userId |-> u, count |-> d.count, resetTime |-> d.resetTime])
  ELSE [rateLimits EXCEPT ![d.id] =
          [userId |-> @.userId, count |-> @.count + 1,
           resetTime |-> IF d.resetMod THEN d.resetTime ELSE @.resetTime]]

\* userRateLimit.save(): insert a new document, or $set the modified paths
SavedRateLimits(u, d) ==
  IF d.isNew
  THEN Append(rateLimits, [userId |-> u, count |-> d.count, resetTime |-> d.resetTime])
  ELSE [rateLimits EXCEPT ![d.id] =
          [userId |-> @.userId, count |-> d.count,
           resetTime |-> IF d.resetMod THEN d.resetTime ELSE @.resetTime]]

\* variant of DeniedRateLimits that also counts the rejected request
DeniedRateLimits_Counts(d) == [rateLimits EXCEPT ![d.id].count = @ + 1]

\* return res.status(429).json(...): the request ends without a save
DeniedRateLimits(d) == rateLimits

\* admissions that are at most one window old at time t
RECURSIVE Prune(_, _)
Prune(s, t) ==
  IF s = <<>> THEN <<>>
  ELSE IF t - Head(s) <= WINDOW_MS THEN s ELSE Prune(Tail(s), t)

TypeOK ==
  /\ clock \in Nat
  /\ calls \in Nat
  /\ \A i \in 1..Len(rateLimits) : rateLimits[i].userId \in Users
  /\ \A i \in 1..Len(rateLimits) : rateLimits[i].count \in Nat
  /\ \A p \in Procs : req[p].pc \in {"idle", "find", "save", "create"}
  /\ \A p \in Procs : resp[p].code \in {0, 201, 401, 403, 429, 500}
  /\ Len(job) = Len(invoices)
  /\ files \subseteq 1..Len(invoices)
  /\ \A e \in sseClients : e[1] \in Users /\ e[2] \in 1..Len(conn)
  /\ \A c \in 1..Len(conn) : conn[c].st \in {"open", "errored", "closed"}
  /\ \A e \in published : e.client \in 0..Len(conn)
  /\ out.code \in {0, 200, 400, 401, 403, 404, 500}
  /\ dash.readyState \in {"none", "connecting", "open", "closed"}
  /\ dash.es \in 0..Len(conn)
  /\ form.submitted \in BOOLEAN
  /\ Len(form.lineItems) >= 1
  /\ \A i \in 1..Len(invoices) :
       /\ invoices[i].userId \in Users
       /\ invoices[i].status \in {"processing", "ready", "failed"}
       /\ job[i].pc \in {"none", "scheduled", "render", "fallback", "saveReady",
                         "saveFailed", "done", "crashed"}

\* -------------------------------------------------------------------- Init
\* The state after c requests of SeqUser, issued one after the other in the
\* first millisecond, were all admitted and answered 201 (c = 0: the state
\* after construction, an empty database).
InitAfter(c) ==
  /\ clock = 0
  /\ rateLimits = IF c = 0 THEN <<>>
                  ELSE <<[userId |-> SeqUser, count |-> c, resetTime |-> WINDOW_MS]>>
  /\ invoices = [i \in 1..c |-> [userId |-> SeqUser, status |-> "processing",
                                 pdfPath |-> NoPath, createdAt |-> 0]]
  /\ req = [p \in Procs |-> Idle]
  /\ resp = [p \in Procs |-> IF c > 0 /\ p = 1 THEN [code |-> 201, timeLeft |-> 0]
                                              ELSE NoResp]
  /\ job = [i \in 1..c |-> [pc |-> "scheduled", status |-> "processing",
                            pdfPath |-> NoPath]]
  /\ calls = 0
  /\ recent = [u \in Users |-> IF u = SeqUser THEN [i \in 1..c |-> 0] ELSE <<>>]
  /\ files = {}
  /\ sseClients = {}
  /\ conn = <<>>
  /\ published = {}
  /\ out = NoOut
  /\ dash = NoDash
  /\ form = NewForm

\* an empty database, or a counter with one slot left, or a full one
Init == \E c \in {0, LIMIT - 1, LIMIT} : InitAfter(c)

\* an empty database
InitEmpty == InitAfter(0)

\* ------------------------------------------------- POST /api/invoices, part 1
\* authenticateToken passes, checkRateLimit runs up to `await RateLimit.findOne`
StartRequest(p, u, d) ==
  /\ req[p].pc = "idle"
  /\ clock' = clock + d
  /\ req' = [req EXCEPT ![p] = [pc |-> "find", user |-> u, now |-> clock', doc |-> NoDoc]]
  /\ resp' = [resp EXCEPT ![p] = NoResp]
  /\ calls' = calls + 1
  /\ recent' = [v \in Users |-> Prune(recent[v], clock')]
  /\ UNCHANGED <<rateLimits, invoices, job>>
  /\ UNCHANGED getVars

\* findOne resolves; the synchronous code up to res.status(429) or to
\* `await userRateLimit.save()` runs
FindOne(p) ==
  /\ req[p].pc = "find"
  /\ \E i \in (IF Matching(req[p].user) = {} THEN {0} ELSE Matching(req[p].user)) :
       LET d == Loaded(req[p].user, i, req[p].now) IN
       IF OverLimit(d)
       THEN /\ resp' = [resp EXCEPT ![p] =
                          [code |-> 429, timeLeft |-> TimeLeft(d.resetTime, req[p].now)]]
            /\ req' = [req EXCEPT ![p] = Idle]
            /\ rateLimits' = DeniedRateLimits(d)
       ELSE /\ req' = [req EXCEPT ![p].pc = "save",
                                  ![p].doc = [d EXCEPT !.count = d.count + 1]]
            /\ UNCHANGED <<resp, rateLimits>>
  /\ UNCHANGED <<clock, invoices, job, calls, recent>>
  /\ UNCHANGED getVars

\* findOne rejects: the catch block answers 500
FindOneFails(p) ==
  /\ req[p].pc = "find"
  /\ resp' = [resp EXCEPT ![p] = [code |-> 500, timeLeft |-> 0]]
  /\ req' = [req EXCEPT ![p] = Idle]
  /\ UNCHANGED <<clock, rateLimits, invoices, job, calls, recent>>
  /\ UNCHANGED getVars

\* save resolves; next() runs the handler up to `await invoice.save()`
SaveRateLimit(p) ==
  /\ req[p].pc = "save"
  /\ rateLimits' = SavedRateLimits(req[p].user, req[p].doc)
  /\ req' = [req EXCEPT ![p].pc = "create"]
  /\ recent' = [recent EXCEPT ![req[p].user] = Append(@, req[p].now)]
  /\ UNCHANGED <<clock, invoices, resp, job, calls>>
  /\ UNCHANGED getVars

\* save rejects (the write may or may not have reached the store): 500
SaveRateLimitFails(p, applied) ==
  /\ req[p].pc = "save"
  /\ rateLimits' = IF applied THEN SavedRateLimits(req[p].user, req[p].doc) ELSE rateLimits
  /\ resp' = [resp EXCEPT ![p] = [code |-> 500, timeLeft |-> 0]]
  /\ req' = [req EXCEPT ![p] = Idle]
  /\ UNCHANGED <<clock, invoices, job, calls, recent>>
  /\ UNCHANGED getVars

\* ------------------------------------------------- POST /api/invoices, part 2
NewInvoice(u) == [userId |-> u, status |-> "processing", pdfPath |-> NoPath,
                  createdAt |-> clock]

\* variant of SaveInvoice that runs generatePDF before it answers
SaveInvoice_Awaits(p) ==
  /\ req[p].pc = "create"
  /\ invoices' = Append(invoices, NewInvoice(req[p].user))
  /\ job' = Append(job, [pc |-> "render", status |-> "processing", pdfPath |-> NoPath])
  /\ resp' = [resp EXCEPT ![p] = [code |-> 201, timeLeft |-> 0]]
  /\ req' = [req EXCEPT ![p] = Idle]
  /\ UNCHANGED <<clock, rateLimits, calls, recent>>
  /\ UNCHANGED getVars

\* invoice.save() resolves; setTimeout schedules the task; 201
SaveInvoice(p) ==
  /\ req[p].pc = "create"
  /\ invoices' = Append(invoices, NewInvoice(req[p].user))
  /\ job' = Append(job, [pc |-> "scheduled", status |-> "processing", pdfPath |-> NoPath])
  /\ resp' = [resp EXCEPT ![p] = [code |-> 201, timeLeft |-> 0]]
  /\ req' = [req EXCEPT ![p] = Idle]
  /\ UNCHANGED <<clock, rateLimits, calls, recent>>
  /\ UNCHANGED getVars

\* invoice.save() rejects: no task is scheduled; 500
SaveInvoiceFails(p, applied) ==
  /\ req[p].pc = "create"
  /\ invoices' = IF applied THEN Append(invoices, NewInvoice(req[p].user)) ELSE invoices
  /\ job' = IF applied
            THEN Append(job, [pc |-> "none", status |-> "processing", pdfPath |-> NoPath])
            ELSE job
  /\ resp' = [resp EXCEPT ![p] = [code |-> 500, timeLeft |-> 0]]
  /\ req' = [req EXCEPT ![p] = Idle]
  /\ UNCHANGED <<clock, rateLimits, calls, recent>>
  /\ UNCHANGED getVars

\* ------------------------------------------------------- the SSE registry
NoClient == 0                \* sseClients.get(userId) === undefined

\* the first message written to a new stream: { type: 'connected' }
Connected == [type |-> "connected", invoiceId |-> 0, status |-> "connected"]

\* variant of MapGet that falls back to any registered stream
MapGet_Any(m, k) ==
  IF \E e \in m : e[1] = k THEN (CHOOSE e \in m : e[1] = k)[2]
  ELSE IF m # {} THEN (CHOOSE e \in m : TRUE)[2]
  ELSE NoClient

\* Map.prototype.get
MapGet(m, k) ==
  IF \E e \in m : e[1] = k THEN (CHOOSE e \in m : e[1] = k)[2] ELSE NoClient

\* variant of MapSet that keeps the entry the key already has
MapSet_Add(m, k, v) == m \cup {<<k, v>>}

\* Map.prototype.set: the entry of key k is replaced
MapSet(m, k, v) == {e \in m : e[1] # k} \cup {<<k, v>>}

\* Map.prototype.delete
MapDelete(m, k) == {e \in m : e[1] # k}

\* client.write(...) on stream c: the bytes reach the client while it is connected
Written(c, data) ==
  IF conn[c].st = "open" THEN [conn EXCEPT ![c].received = Append(@, data)] ELSE conn

\* variant of SendSSEUpdate whose catch block keeps the entry
SendSSEUpdate_Keeps(userId, data, thrown) ==
  LET client == MapGet(sseClients, userId) IN
  /\ published' = published \cup {[user |-> userId, data |-> data, client |-> client]}
  /\ IF client = NoClient
     THEN thrown = FALSE /\ UNCHANGED <<sseClients, conn>>
     ELSE IF thrown
          THEN UNCHANGED <<sseClients, conn>>
          ELSE conn' = Written(client, data) /\ UNCHANGED sseClients

\* sendSSEUpdate(userId, data); thrown: client.write throws
SendSSEUpdate(userId, data, thrown) ==
  LET client == MapGet(sseClients, userId) IN
  /\ published' = published \cup {[user |-> userId, data |-> data, client |-> client]}
  /\ IF client = NoClient
     THEN thrown = FALSE /\ UNCHANGED <<sseClients, conn>>
     ELSE IF thrown
          THEN sseClients' = MapDelete(sseClients, userId) /\ UNCHANGED conn
          ELSE conn' = Written(client, data) /\ UNCHANGED sseClients

\* the payload of the update sent for invoice i
Update(i, status) == [type |-> "invoice_" \o status, invoiceId |-> i, status |-> status]

\* ------------------------------------------- the background task of invoice i
JobIds == 1..Len(job)

\* invoice.save() of the task's in-memory document: $set of the modified paths
\* (status always; pdfPath once generatePDF has assigned it)
SavedInvoices(i) ==
  [invoices EXCEPT ![i] =
     [@ EXCEPT !.status = job[i].status,
               !.pdfPath = IF job[i].pdfPath # NoPath THEN job[i].pdfPath ELSE @]]

\* the catch block of the setTimeout callback, up to `await invoice.save()`
Caught(i) == [job EXCEPT ![i].pc = "saveFailed", ![i].status = "failed"]

\* the timer fires: generatePDF starts and awaits pdf(...).toBlob()
TimerFires(i) ==
  /\ job[i].pc = "scheduled"
  /\ job' = [job EXCEPT ![i].pc = "render"]
  /\ UNCHANGED <<clock, rateLimits, invoices, req, resp, calls, recent>>
  /\ UNCHANGED <<files, hubVars, out, dash, form>>

\* the file is written (by the first attempt or by the fallback); generatePDF
\* assigns pdfPath and status and awaits invoice.save()
RenderOk(i) ==
  /\ job[i].pc \in {"render", "fallback"}
  /\ files' = files \cup {i}
  /\ job' = [job EXCEPT ![i].pc = "saveReady", ![i].pdfPath = i, ![i].status = "ready"]
  /\ UNCHANGED <<clock, rateLimits, invoices, req, resp, calls, recent>>
  /\ UNCHANGED <<hubVars, out, dash, form>>

\* the first attempt throws: the inner catch starts the fallback
RenderFails(i) ==
  /\ job[i].pc = "render"
  /\ job' = [job EXCEPT ![i].pc = "fallback"]
  /\ UNCHANGED <<clock, rateLimits, invoices, req, resp, calls, recent>>
  /\ UNCHANGED <<files, hubVars, out, dash, form>>

\* the fallback throws: generatePDF rejects, the callback's catch block runs
FallbackFails(i) ==
  /\ job[i].pc = "fallback"
  /\ job' = Caught(i)
  /\ UNCHANGED <<clock, rateLimits, invoices, req, resp, calls, recent>>
  /\ UNCHANGED <<files, hubVars, out, dash, form>>

\* the save at the end of generatePDF resolves; the callback sends the update
SaveReady(i) ==
  /\ job[i].pc = "saveReady"
  /\ invoices' = SavedInvoices(i)
  /\ job' = [job EXCEPT ![i].pc = "done"]
  /\ \E thrown \in BOOLEAN :
       SendSSEUpdate(invoices[i].userId, Update(i, "ready"), thrown)
  /\ UNCHANGED <<clock, rateLimits, req, resp, calls, recent>>
  /\ UNCHANGED <<files, out, dash, form>>

\* the save at the end of generatePDF rejects (the write may or may not have
\* reached the store): the callback's catch block runs
SaveReadyFails(i, applied) ==
  /\ job[i].pc = "saveReady"
  /\ invoices' = IF applied THEN SavedInvoices(i) ELSE invoices
  /\ job' = Caught(i)
  /\ UNCHANGED <<clock, rateLimits, req, resp, calls, recent>>
  /\ UNCHANGED <<files, hubVars, out, dash, form>>

\* variant of SaveFailed that sends the update without waiting for the save
SaveFailed_Unsaved(i) ==
  /\ job[i].pc = "saveFailed"
  /\ job' = [job EXCEPT ![i].pc = "done"]
  /\ \E thrown \in BOOLEAN :
       SendSSEUpdate(invoices[i].userId, Update(i, "failed"), thrown)
  /\ UNCHANGED <<clock, rateLimits, invoices, req, resp, calls, recent>>
  /\ UNCHANGED <<files, out, dash, form>>

\* the save of the catch block resolves; the callback sends the update
SaveFailed(i) ==
  /\ job[i].pc = "saveFailed"
  /\ invoices' = SavedInvoices(i)
  /\ job' = [job EXCEPT ![i].pc = "done"]
  /\ \E thrown \in BOOLEAN :
       SendSSEUpdate(invoices[i].userId, Update(i, "failed"), thrown)
  /\ UNCHANGED <<clock, rateLimits, req, resp, calls, recent>>
  /\ UNCHANGED <<files, out, dash, form>>

\* the save of the catch block rejects: nothing handles the rejection
SaveFailedFails(i, applied) ==
  /\ job[i].pc = "saveFailed"
  /\ invoices' = IF applied THEN SavedInvoices(i) ELSE invoices
  /\ job' = [job EXCEPT ![i].pc = "crashed"]
  /\ UNCHANGED <<clock, rateLimits, req, resp, calls, recent>>
  /\ UNCHANGED <<files, hubVars, out, dash, form>>

JobStep(i) ==
  \/ TimerFires(i)
  \/ RenderOk(i)
  \/ RenderFails(i)
  \/ FallbackFails(i)
  \/ SaveReady(i)
  \/ SaveFailed(i)
  \/ \E applied \in BOOLEAN : SaveReadyFails(i, applied)
  \/ \E applied \in BOOLEAN : SaveFailedFails(i, applied)

\* --------------------------------------------------------------- GET /api/sse
\* jwt.verify passes: the stream is registered, greeted, and its handlers set
Subscribe(u) ==
  /\ conn' = Append(conn, [user |-> u, st |-> "open", received |-> <<Connected>>,
                           started |-> {i \in JobIds : job[i].pc # "scheduled"}])
  /\ sseClients' = MapSet(sseClients, u, Len(conn) + 1)
  /\ UNCHANGED <<clock, rateLimits, invoices, req, resp, job, calls, recent>>
  /\ UNCHANGED <<files, published, out, dash, form>>

\* req.on('error'): the entry of the connection's user is deleted
ConnError(c) ==
  /\ conn[c].st = "open"
  /\ conn' = [conn EXCEPT ![c].st = "errored"]
  /\ sseClients' = MapDelete(sseClients, conn[c].user)
  /\ UNCHANGED <<clock, rateLimits, invoices, req, resp, job, calls, recent>>
  /\ UNCHANGED <<files, published, out, dash, form>>

\* variant of ConnClose without a handler
ConnClose_Keeps(c) ==
  /\ conn[c].st \in {"open", "errored"}
  /\ conn' = [conn EXCEPT ![c].st = "closed"]
  /\ UNCHANGED <<clock, rateLimits, invoices, req, resp, job, calls, recent>>
  /\ UNCHANGED <<files, sseClients, published, out, dash, form>>

\* req.on('close'): the entry of the connection's user is deleted
ConnClose(c) ==
  /\ conn[c].st \in {"open", "errored"}
  /\ conn' = [conn EXCEPT ![c].st = "closed"]
  /\ sseClients' = MapDelete(sseClients, conn[c].user)
  /\ UNCHANGED <<clock, rateLimits, invoices, req, resp, job, calls, recent>>
  /\ UNCHANGED <<files, published, out, dash, form>>

\* ------------------------------------------- GET /api/invoices/:id/download
\* variant of DownloadResponse that only looks at pdfPath
DownloadResponse_PathOnly(u, id) ==
  IF ~(id \in 1..Len(invoices) /\ invoices[id].userId = u)
  THEN [code |-> 404, body |-> <<"Invoice not found">>]
  ELSE IF invoices[id].pdfPath = NoPath
  THEN [code |-> 400, body |-> <<"PDF not ready for download">>]
  ELSE IF ~(invoices[id].pdfPath \in files)
  THEN [code |-> 404, body |-> <<"PDF file not found">>]
  ELSE [code |-> 200, body |-> <<"file", invoices[id].pdfPath>>]

\* variant of DownloadResponse whose query does not filter on userId
DownloadResponse_AnyOwner(u, id) ==
  IF ~(id \in 1..Len(invoices))
  THEN [code |-> 404, body |-> <<"Invoice not found">>]
  ELSE IF invoices[id].status # "ready" \/ invoices[id].pdfPath = NoPath
  THEN [code |-> 400, body |-> <<"PDF not ready for download">>]
  ELSE IF ~(invoices[id].pdfPath \in files)
  THEN [code |-> 404, body |-> <<"PDF file not found">>]
  ELSE [code |-> 200, body |-> <<"file", invoices[id].pdfPath>>]

\* the answer once Invoice.findOne({ _id, userId }) has resolved
DownloadResponse(u, id) ==
  IF ~(id \in 1..Len(invoices) /\ invoices[id].userId = u)
  THEN [code |-> 404, body |-> <<"Invoice not found">>]
  ELSE IF invoices[id].status # "ready" \/ invoices[id].pdfPath = NoPath
  THEN [code |-> 400, body |-> <<"PDF not ready for download">>]
  ELSE IF ~(invoices[id].pdfPath \in files)
  THEN [code |-> 404, body |-> <<"PDF file not found">>]
  ELSE [code |-> 200, body |-> <<"file", invoices[id].pdfPath>>]

\* the answer of the catch block
InternalError == [code |-> 500, body |-> <<"Internal server error">>]

\* the response of a GET request of user u
Out(op, u, id, r) == [op |-> op, user |-> u, id |-> id, code |-> r.code, body |-> r.body]

Download(u, id) ==
  /\ out' = Out("download", u, id, DownloadResponse(u, id))
  /\ UNCHANGED <<clock, rateLimits, invoices, req, resp, job, calls, recent>>
  /\ UNCHANGED <<files, hubVars, dash, form>>

\* findOne rejects (the store fails, or the id is malformed)
DownloadFails(u, id) ==
  /\ out' = Out("download", u, id, InternalError)
  /\ UNCHANGED <<clock, rateLimits, invoices, req, resp, job, calls, recent>>
  /\ UNCHANGED <<files, hubVars, dash, form>>

\* ------------------------------------------------------- GET /api/invoices
\* Invoice.find({ userId }): the ids of the documents the filter matches
Found(u) == {i \in 1..Len(invoices) : invoices[i].userId = u}

\* the documents of S that sort({ createdAt: -1 }) may put first
First(S) == {m \in S : \A i \in S : invoices[m].createdAt >= invoices[i].createdAt}

\* variant of Sorted that keeps the insertion order
RECURSIVE Sorted_Natural(_)
Sorted_Natural(S) ==
  IF S = {} THEN {<<>>}
  ELSE LET m == CHOOSE i \in S : \A j \in S : i <= j IN
       {<<m>> \o t : t \in Sorted_Natural(S \ {m})}

\* .sort({ createdAt: -1 }): the orders the query may return (documents with
\* equal createdAt come in any order)
RECURSIVE Sorted(_)
Sorted(S) ==
  IF S = {} THEN {<<>>}
  ELSE UNION {{<<m>> \o t : t \in Sorted(S \ {m})} : m \in First(S)}

List(u) ==
  /\ \E body \in Sorted(Found(u)) :
       out' = Out("list", u, 0, [code |-> 200, body |-> body])
  /\ UNCHANGED <<clock, rateLimits, invoices, req, resp, job, calls, recent>>
  /\ UNCHANGED <<files, hubVars, dash, form>>

\* find rejects
ListFails(u) ==
  /\ out' = Out("list", u, 0, InternalError)
  /\ UNCHANGED <<clock, rateLimits, invoices, req, resp, job, calls, recent>>
  /\ UNCHANGED <<files, hubVars, dash, form>>

\* ------------------------------------------------------------ authentication
\* a request without Authorization header / authorization query parameter
NoToken == [present |-> FALSE, user |-> "A", valid |-> FALSE]

\* the tokens a request may carry: signed by the server for a user, or not
Tokens == {NoToken} \cup [present : {TRUE}, user : Users, valid : BOOLEAN]

NoUser == "none"             \* jwt.verify calls back with err

\* variant of Verify that decodes the payload without checking the signature
Verify_Decode(token) == token.user

\* jwt.verify(token, JWT_SECRET, ...): the payload's user, or the error
Verify(token) == IF token.valid THEN token.user ELSE NoUser

\* the status authenticateToken / GET /api/sse ends the request with; 0: goes on
AuthStatus(token) ==
  IF ~token.present THEN 401
  ELSE IF Verify(token) = NoUser THEN 403
  ELSE 0

AuthError(token) ==
  [code |-> AuthStatus(token),
   body |-> IF AuthStatus(token) = 401 THEN <<"Access token required">>
                                       ELSE <<"Invalid or expired token">>]

\* POST /api/invoices arrives: authenticateToken answers 401 / 403, or calls
\* next() and checkRateLimit runs up to its first await
PostInvoice(p, token, d) ==
  IF AuthStatus(token) # 0
  THEN /\ req[p].pc = "idle"
       /\ resp' = [resp EXCEPT ![p] = [code |-> AuthStatus(token), timeLeft |-> 0]]
       /\ calls' = calls + 1
       /\ UNCHANGED <<clock, rateLimits, invoices, req, job, recent>>
       /\ UNCHANGED getVars
  ELSE StartRequest(p, Verify(token), d)

\* GET /api/sse arrives: 401 / 403, or the stream is registered
GetSSE(token) ==
  IF AuthStatus(token) # 0
  THEN /\ out' = Out("sse", token.user, 0, AuthError(token))
       /\ UNCHANGED <<clock, rateLimits, invoices, req, resp, job, calls, recent>>
       /\ UNCHANGED <<files, hubVars, dash, form>>
  ELSE Subscribe(Verify(token))

\* ---------------------------------------------------------- the dashboard page
DashUser == SeqUser          \* the user logged in in the browser

\* what the dashboard's handlers leave alone: the server and the form
serverVars == <<clock, rateLimits, invoices, req, resp, job, calls, recent,
                files, sseClients, conn, published, out, form>>

\* the page after its useEffect ran: fetchInvoices() awaits the list and
\* setupSSE() has created the EventSource
Mounted == [es |-> 0, readyState |-> "connecting", read |-> 0, shown |-> <<>>,
            fetching |-> TRUE]

Mount ==
  /\ dash = NoDash
  /\ dash' = Mounted
  /\ UNCHANGED serverVars

\* fetchInvoices: the list arrives, setInvoices(data)
DashFetched ==
  /\ dash.fetching
  /\ dash' = [dash EXCEPT !.shown = [i \in Found(DashUser) |-> invoices[i].status],
                          !.fetching = FALSE]
  /\ UNCHANGED serverVars

\* fetchInvoices: the request fails, a toast is shown
DashFetchFails ==
  /\ dash.fetching
  /\ dash' = [dash EXCEPT !.fetching = FALSE]
  /\ UNCHANGED serverVars

\* eventSource.onopen: the server has answered the EventSource's request with
\* stream c
DashOpened(c) ==
  /\ dash.readyState = "connecting"
  /\ c > dash.es
  /\ conn[c].user = DashUser
  /\ conn[c].st = "open"
  /\ dash' = [dash EXCEPT !.es = c, !.readyState = "open", !.read = 0]
  /\ UNCHANGED serverVars

\* setInvoices(prev => prev.map(...)) for a message of type invoice_ready or
\* invoice_failed
Shown(m) ==
  IF m.type = "invoice_ready"
  THEN [i \in DOMAIN dash.shown |-> IF i = m.invoiceId THEN "ready" ELSE dash.shown[i]]
  ELSE IF m.type = "invoice_failed"
  THEN [i \in DOMAIN dash.shown |-> IF i = m.invoiceId THEN "failed" ELSE dash.shown[i]]
  ELSE dash.shown

\* eventSource.onmessage for the next message of the stream
DashMessage ==
  /\ dash.readyState = "open"
  /\ dash.read < Len(conn[dash.es].received)
  /\ dash' = [dash EXCEPT !.read = @ + 1,
                          !.shown = Shown(conn[dash.es].received[dash.read + 1])]
  /\ UNCHANGED serverVars

\* the connection is lost: the browser reconnects by itself (CONNECTING) or
\* gives up (CLOSED); onerror only sets the 5 s timer
DashLost(fatal) ==
  /\ dash.readyState = "open"
  /\ dash' = [dash EXCEPT !.readyState = IF fatal THEN "closed" ELSE "connecting"]
  /\ UNCHANGED serverVars

\* the timer set by onerror finds readyState === CLOSED: setupSSE()
DashRetry ==
  /\ dash.readyState = "closed"
  /\ dash' = [dash EXCEPT !.readyState = "connecting"]
  /\ UNCHANGED serverVars

\* ------------------------------------------------------------ the invoice form
\* what the form's handlers leave alone
pageVars == <<clock, rateLimits, invoices, req, resp, job, calls, recent,
              files, sseClients, conn, published, out, dash>>

FormIndices == 1..Len(form.lineItems)

\* handleLineItemChange(index, "description", value)
DescriptionChange(index, value) ==
  /\ ~form.submitted
  /\ form' = [form EXCEPT !.lineItems[index].description = value]
  /\ UNCHANGED pageVars

\* handleLineItemChange(index, "quantity", value), handleQuantityKeyDown
QuantityChange(index, value) ==
  /\ ~form.submitted
  /\ form' = [form EXCEPT !.lineItems[index] =
                [@ EXCEPT !.quantity = value, !.quantityTouched = TRUE,
                          !.amount = value * form.lineItems[index].rate]]
  /\ UNCHANGED pageVars

\* handleLineItemChange(index, "rate", value), handleRateKeyDown
RateChange(index, value) ==
  /\ ~form.submitted
  /\ form' = [form EXCEPT !.lineItems[index] =
                [@ EXCEPT !.rate = value, !.rateTouched = TRUE,
                          !.amount = form.lineItems[index].quantity * value]]
  /\ UNCHANGED pageVars

\* the tax field: setTax(...), and setTaxTouched(true) on the first digit
TaxChange(value, key) ==
  /\ ~form.submitted
  /\ key => ~form.taxTouched
  /\ form' = [form EXCEPT !.tax = value, !.taxTouched = @ \/ key]
  /\ UNCHANGED pageVars

AddLineItem ==
  /\ ~form.submitted
  /\ Len(form.lineItems) < MaxItems
  /\ form' = [form EXCEPT !.lineItems = Append(@, NewItem)]
  /\ UNCHANGED pageVars

\* lineItems.filter((_, i) => i !== index)
Without(s, index) ==
  [k \in 1..(Len(s) - 1) |-> IF k < index THEN s[k] ELSE s[k + 1]]

RemoveLineItem(index) ==
  /\ ~form.submitted
  /\ form' = [form EXCEPT !.lineItems = IF Len(@) > 1 THEN Without(@, index) ELSE @]
  /\ UNCHANGED pageVars

\* lineItems.reduce((sum, item) => sum + item.amount, 0)
RECURSIVE CalculateSubtotal(_)
CalculateSubtotal(items) ==
  IF items = <<>> THEN 0
  ELSE CalculateSubtotal(SubSeq(items, 1, Len(items) - 1)) + items[Len(items)].amount

CalculateTotal(items, tax) == CalculateSubtotal(items) + tax

\* the four fields of a line item that go into the payload
Clean(item) == [description |-> item.description, quantity |-> item.quantity,
                rate |-> item.rate, amount |-> item.amount]

\* cleanLineItems.filter((item) => item.description && item.quantity > 0)
RECURSIVE Kept(_)
Kept(items) ==
  IF items = <<>> THEN <<>>
  ELSE IF Head(items).description # "" /\ Head(items).quantity > 0
  THEN <<Clean(Head(items))>> \o Kept(Tail(items))
  ELSE Kept(Tail(items))

\* the button 'Generate PDF Invoice' (outside the <form>): onSubmit(invoiceData)
HandleSubmit ==
  /\ ~form.submitted
  /\ form' = [form EXCEPT !.submitted = TRUE,
                          !.payload = [lineItems |-> Kept(form.lineItems),
                                       subtotal |-> CalculateSubtotal(form.lineItems),
                                       tax |-> form.tax,
                                       total |-> CalculateTotal(form.lineItems, form.tax)]]
  /\ UNCHANGED pageVars

\* ------------------------------------------------------------ specifications
\* the request handlers, whatever their interleaving
RequestStep(p) ==
  \/ FindOne(p)
  \/ SaveRateLimit(p)
  \/ SaveInvoice(p)

RequestFailure(p) ==
  \/ FindOneFails(p)
  \/ \E applied \in BOOLEAN : SaveRateLimitFails(p, applied)
  \/ \E applied \in BOOLEAN : SaveInvoiceFails(p, applied)

\* concurrent requests of several users over a store that may fail
Next ==
  \/ \E p \in Procs, u \in Users, d \in Steps :
       calls < MaxConcCalls /\ StartRequest(p, u, d)
  \/ \E p \in Procs : RequestStep(p)
  \/ \E p \in Procs : RequestFailure(p)

Spec == Init /\ [][Next]_vars

\* the requests of one user, one at a time, over a store that answers
NextSeq ==
  \/ \E d \in Steps :
       /\ calls < MaxCalls
       /\ \A q \in Procs : req[q].pc = "idle"
       /\ StartRequest(1, SeqUser, d)
  \/ \E p \in Procs : RequestStep(p)

SpecSeq == InitEmpty /\ [][NextSeq]_vars

\* a few requests and the background tasks they schedule
NextJobs ==
  \/ \E p \in Procs, u \in Users, d \in JobSteps :
       calls < MaxJobs /\ StartRequest(p, u, d)
  \/ \E p \in Procs : RequestStep(p)
  \/ \E p \in Procs : RequestFailure(p)
  \/ \E i \in JobIds : JobStep(i)

SpecJobs == InitEmpty /\ [][NextJobs]_vars

\* The state after one request for each entry of `owners`, issued one after
\* the other by the user the entry names, Gap ms apart, were all admitted and
\* answered 201.
CreatedAt(k) == Gap * (k - 1)

\* the requests of user u among them, and the k-th of these
RequestsOf(u, owners) == {k \in 1..Len(owners) : owners[k] = u}

Nth(S, j) == CHOOSE k \in S : Cardinality({l \in S : l <= k}) = j

\* the users among them, in the order of their first request
Requesters(owners) ==
  LET firsts == {k \in 1..Len(owners) : \A l \in 1..(k - 1) : owners[l] # owners[k]}
  IN [j \in 1..Cardinality(firsts) |-> owners[Nth(firsts, j)]]

InitCreated(owners) ==
  /\ clock = (IF owners = <<>> THEN 0 ELSE CreatedAt(Len(owners)))
  /\ rateLimits = [j \in 1..Len(Requesters(owners)) |->
                     LET u == Requesters(owners)[j] IN
                     [userId |-> u, count |-> Cardinality(RequestsOf(u, owners)),
                      resetTime |-> CreatedAt(Nth(RequestsOf(u, owners), 1)) + WINDOW_MS]]
  /\ invoices = [k \in 1..Len(owners) |->
                   [userId |-> owners[k], status |-> "processing",
                    pdfPath |-> NoPath, createdAt |-> CreatedAt(k)]]
  /\ req = [p \in Procs |-> Idle]
  /\ resp = [p \in Procs |-> IF owners # <<>> /\ p = 1 THEN [code |-> 201, timeLeft |-> 0]
                                                     ELSE NoResp]
  /\ job = [k \in 1..Len(owners) |-> [pc |-> "scheduled", status |-> "processing",
                                     pdfPath |-> NoPath]]
  /\ calls = 0
  /\ recent = [u \in Users |->
                 [j \in 1..Cardinality(RequestsOf(u, owners)) |->
                    CreatedAt(Nth(RequestsOf(u, owners), j))]]
  /\ files = {}
  /\ sseClients = {}
  /\ conn = <<>>
  /\ published = {}
  /\ out = NoOut
  /\ dash = NoDash
  /\ form = NewForm

\* a hub run starts with invoices of A, B, A, ...
HubOwners == [k \in 1..HubJobs |-> IF k % 2 = 1 THEN "A" ELSE "B"]

\* a read run starts with invoices of A, A, B, A, A, B, ...
ReadOwners == [k \in 1..ReadJobs |-> IF k % 3 = 0 THEN "B" ELSE "A"]

\* the background tasks and the SSE connections of their users
NextHub ==
  \/ \E i \in JobIds : JobStep(i)
  \/ \E u \in Users : Len(conn) < MaxConns /\ Subscribe(u)
  \/ \E c \in 1..Len(conn) : ConnError(c)
  \/ \E c \in 1..Len(conn) : ConnClose(c)

SpecHub == InitCreated(HubOwners) /\ [][NextHub]_vars

\* the background tasks and the GET requests of the users
NextRead ==
  \/ \E i \in JobIds : JobStep(i)
  \/ \E u \in Users, id \in 1..(Len(invoices) + 1) : Download(u, id)
  \/ \E u \in Users, id \in 1..(Len(invoices) + 1) : DownloadFails(u, id)
  \/ \E u \in Users : List(u)
  \/ \E u \in Users : ListFails(u)

SpecRead == InitCreated(ReadOwners) /\ [][NextRead]_vars

\* the job-runner run when every started background task keeps being scheduled
SpecJobsFair ==
  SpecJobs /\ \A i \in 1..MaxJobs : WF_vars(i \in JobIds /\ JobStep(i))

\* requests with and without a valid token, over a store that answers
NextAuth ==
  \/ \E p \in Procs, t \in Tokens, d \in JobSteps :
       calls < MaxAuthCalls /\ PostInvoice(p, t, d)
  \/ \E p \in Procs : RequestStep(p)
  \/ \E t \in Tokens : Len(conn) < MaxConns /\ GetSSE(t)
  \/ \E c \in 1..Len(conn) : ConnClose(c)

SpecAuth == InitEmpty /\ [][NextAuth]_vars

\* a dashboard run starts with one invoice of the dashboard's user
DashOwners == <<DashUser>>

\* the server has an open stream the browser has not been told about yet
Unbound == \E c \in 1..Len(conn) :
             c > dash.es /\ conn[c].user = DashUser /\ conn[c].st = "open"

\* the dashboard of one user, its SSE connections and the background tasks
NextDash ==
  \/ \E i \in JobIds : JobStep(i)
  \/ Mount
  \/ DashFetched
  \/ DashFetchFails
  \/ /\ dash.readyState = "connecting"
     /\ ~Unbound
     /\ Len(conn) < MaxConns
     /\ Subscribe(DashUser)
  \/ \E c \in 1..Len(conn) : DashOpened(c)
  \/ DashMessage
  \/ \E fatal \in BOOLEAN : DashLost(fatal)
  \/ DashRetry
  \/ \E c \in 1..Len(conn) :
       ~(c = dash.es /\ dash.readyState = "open") /\ ConnClose(c)
  \/ \E c \in 1..Len(conn) :
       ~(c = dash.es /\ dash.readyState = "open") /\ ConnError(c)

SpecDash == InitCreated(DashOwners) /\ [][NextDash]_vars

\* the edits of the invoice form up to its submission
NextForm ==
  \/ \E index \in FormIndices, value \in Descriptions : DescriptionChange(index, value)
  \/ \E index \in FormIndices, value \in Quantities : QuantityChange(index, value)
  \/ \E index \in FormIndices, value \in Rates : RateChange(index, value)
  \/ \E value \in Taxes, key \in BOOLEAN : TaxChange(value, key)
  \/ AddLineItem
  \/ \E index \in FormIndices : RemoveLineItem(index)
  \/ HandleSubmit

SpecForm == InitEmpty /\ [][NextForm]_vars

\* ------------------------------------------------------------------- claims
\* the window of a stored counter: the 60 s that end at its resetTime
WindowStart(r) == r.resetTime - WINDOW_MS

InWindow(t, r) == WindowStart(r) <= t /\ t < r.resetTime

\* the requests of user u admitted at a time that satisfies P
Admitted(u, P(_)) == Cardinality({k \in 1..Len(recent[u]) : P(recent[u][k])})

AdmittedInWindow(r) == LET In(t) == InWindow(t, r) IN Admitted(r.userId, In)

\* k is the least integer with k seconds >= x milliseconds
IsCeilSeconds(k, x) == k * MS_PER_SEC >= x /\ (k - 1) * MS_PER_SEC < x

\* slot p is about to run the check on counter i of its user
Checks(p, i) == req[p].pc = "find" /\ i \in Matching(req[p].user)

\* C1: in a sequential run, at most 5 of the requests whose time lies inside
\* the window of the stored counter are admitted, and a request that arrives
\* inside the window once 5 were admitted is answered 429.
C1_AtMostFivePerWindow ==
  [][/\ \A i \in 1..Len(rateLimits') : AdmittedInWindow(rateLimits[i])' <= LIMIT
     /\ \A p \in Procs : \A i \in 1..Len(rateLimits) :
          ( /\ Checks(p, i)
            /\ InWindow(req[p].now, rateLimits[i])
            /\ AdmittedInWindow(rateLimits[i]) = LIMIT
            /\ req'[p].pc # "find" )
          => resp'[p].code = 429]_vars

\* five requests were admitted inside the window and one more was answered 429
C1_Witness ==
  \E p \in Procs : \E i \in 1..Len(rateLimits) :
    /\ resp[p].code = 429
    /\ AdmittedInWindow(rateLimits[i]) = LIMIT
    /\ clock < rateLimits[i].resetTime

\* C2: two requests of one user that both read the counter with one slot left
\* (count = 4, window not passed) are never both admitted.
C2_NoDoubleAdmit ==
  \A p, q \in Procs :
    ~ ( /\ p # q
        /\ req[p].pc = "create" /\ req[q].pc = "create"
        /\ req[p].user = req[q].user
        /\ req[p].doc.id = req[q].doc.id /\ req[p].doc.id # 0
        /\ ~req[p].doc.resetMod /\ ~req[q].doc.resetMod
        /\ req[p].doc.count = LIMIT /\ req[q].doc.count = LIMIT )

\* C3: in a sequential run no 60-second interval holds more than 5 admitted
\* requests of the user.
C3_AtMostFivePerMinute ==
  \A u \in Users :
    LET Young(t) == clock - t < WINDOW_MS IN Admitted(u, Young) <= LIMIT

\* C4: a check at a time now >= resetTime on a counter with count = 5 resets
\* the counter (resetTime = now + 60 s) and is admitted as the first request
\* of the new window.
C4_ResetAtBoundary ==
  [][\A p \in Procs : \A i \in 1..Len(rateLimits) :
       ( /\ Checks(p, i)
         /\ rateLimits[i].count = LIMIT
         /\ req[p].now >= rateLimits[i].resetTime
         /\ req'[p].pc # "find" )
       => /\ req'[p].pc = "save"
          /\ req'[p].doc.count = 1
          /\ req'[p].doc.resetTime = req[p].now + WINDOW_MS]_vars

\* C5: every 429 reports ceil((resetTime - now) / 1 s) seconds, and that
\* number is at least 1.
C5_RetryAfterPositive ==
  [][\A p \in Procs : \A i \in 1..Len(rateLimits) :
       ( Checks(p, i) /\ resp'[p].code = 429 )
       => /\ IsCeilSeconds(resp'[p].timeLeft, rateLimits[i].resetTime - req[p].now)
          /\ resp'[p].timeLeft >= 1]_vars

C7_CountWithinLimit ==
  \A i \in 1..Len(rateLimits) : rateLimits[i].count \in 0..LIMIT

\* two interleaved requests both wrote the last slot of the same counter
C7_Witness ==
  \E i \in 1..Len(rateLimits) :
    /\ rateLimits[i].count = LIMIT
    /\ \A p \in Procs : req[p].pc = "create" /\ req[p].doc.id = i
                           /\ req[p].doc.count = LIMIT

\* C8: no user has more than one counter.
C8_OneCounterPerUser ==
  \A u \in Users : Cardinality(Matching(u)) <= 1

\* C9: no step of a request that is answered 429 (reading the clock, reading
\* the counter, the check itself) changes a stored counter, stores an invoice
\* or schedules a task.
C9_DeniedChangesNothing ==
  [][\A p \in Procs :
       ( req[p].pc \in {"idle", "find"} /\ req'[p] # req[p] )
       => UNCHANGED <<rateLimits, invoices, job>>]_vars

\* a request was answered 429 while the counter stood at the limit
C9_Witness ==
  \E p \in Procs : \E i \in 1..Len(rateLimits) :
    resp[p].code = 429 /\ rateLimits[i].count = LIMIT

\* C10: once the stored status of an invoice is ready or failed it never
\* changes again.
C10_StatusMonotonic ==
  [][\A i \in 1..Len(invoices) :
       invoices[i].status \in {"ready", "failed"}
       => invoices'[i].status = invoices[i].status]_vars

\* C11: the stored pdfPath of an invoice is set if and only if its stored
\* status is ready.
C11_PathIffReady ==
  \A i \in 1..Len(invoices) :
    (invoices[i].pdfPath # NoPath) <=> (invoices[i].status = "ready")

\* the events passed to sendSSEUpdate by the step
Sent == published' \ published

\* the connections opened for user u so far
ConnsOf(u) == {c \in 1..Len(conn) : conn[c].user = u}

\* the most recent of them
Newest(u) == CHOOSE c \in ConnsOf(u) : \A d \in ConnsOf(u) : d <= c

\* the last GET request asked for an invoice that user `out.user` owns
OwnDownload(o) ==
  o.op = "download" /\ o.id \in 1..Len(invoices) /\ invoices[o.id].userId = o.user

\* C12: a download of an invoice that belongs to another user is answered 404
\* 'Invoice not found' (or 500 when the query itself fails), never with the
\* file, whatever the invoice's status; an id that matches no invoice gets
\* the same answers.
C12_ForeignIsNotFound ==
  (out.op = "download" /\ ~OwnDownload(out))
    => \/ out.code = 404 /\ out.body = <<"Invoice not found">>
       \/ out.code = 500 /\ out.body = <<"Internal server error">>

C12_Witness ==
  /\ out.op = "download"
  /\ out.id \in 1..Len(invoices)
  /\ invoices[out.id].userId # out.user
  /\ invoices[out.id].status = "ready"
  /\ invoices[out.id].pdfPath \in files
  /\ out.code = 404

\* C13: a download by the owner that finds the stored status processing or
\* failed is answered 400 'PDF not ready for download', not with the file.
C13_NotReadyUnlessReady ==
  [][(/\ out' # out
      /\ OwnDownload(out')
      /\ out'.code # 500
      /\ invoices[out'.id].status \in {"processing", "failed"})
       => out'.code = 400 /\ out'.body = <<"PDF not ready for download">>]_vars

C13_Witness ==
  /\ OwnDownload(out)
  /\ out.code = 400
  /\ invoices[out.id].status = "failed"
  /\ invoices[out.id].pdfPath \in files

\* C14: a successful list request returns each invoice of the caller exactly
\* once, no invoice of another user, ordered by createdAt descending.
C14_ListExactAndSorted ==
  [][(out' # out /\ out'.op = "list" /\ out'.code = 200)
       => LET b == out'.body
              mine == {i \in 1..Len(invoices) : invoices[i].userId = out'.user}
          IN /\ {b[k] : k \in 1..Len(b)} = mine
             /\ Len(b) = Cardinality(mine)
             /\ \A k \in 1..(Len(b) - 1) :
                  invoices[b[k]].createdAt >= invoices[b[k + 1]].createdAt]_vars

C14_Witness ==
  /\ out.op = "list"
  /\ out.code = 200
  /\ Len(out.body) >= 2
  /\ invoices[out.body[1]].createdAt > invoices[out.body[2]].createdAt
  /\ out.body[1] > out.body[2]

\* C15: sseClients never holds two streams for one user, and a subscribe
\* leaves the new connection as the registered stream of its user.
C15_OneHandleNewest ==
  [][/\ \A u \in Users : Cardinality({e \in sseClients' : e[1] = u}) <= 1
     /\ Len(conn') > Len(conn)
          => <<conn'[Len(conn')].user, Len(conn')>> \in sseClients']_vars

C15_Witness ==
  \E u \in Users :
    /\ Cardinality(ConnsOf(u)) >= 2
    /\ \A c \in ConnsOf(u) : conn[c].st = "open"
    /\ <<u, Newest(u)>> \in sseClients

\* C16: while the most recent connection of a user is open, every update
\* sent for that user is written to it (updates whose write throws aside).
C16_NewestReceives ==
  [][\A e \in Sent :
       (/\ ConnsOf(e.user) # {}
        /\ conn[Newest(e.user)].st = "open"
        /\ sseClients' = sseClients)
         => conn'[Newest(e.user)].received =
              Append(conn[Newest(e.user)].received, e.data)]_vars

\* C17: an update sent for a user without a registered stream changes neither
\* the registry nor any connection, and a connection receives an update only
\* in the step that sends it: a new connection starts with the greeting alone.
C17_NoHandleNoOp ==
  [][/\ \A e \in Sent :
          (~ \E x \in sseClients : x[1] = e.user)
            => e.client = NoClient /\ UNCHANGED <<sseClients, conn>>
     /\ \A c \in 1..Len(conn') :
          IF c <= Len(conn)
          THEN conn'[c].received # conn[c].received
                 => \E e \in Sent :
                      /\ <<e.user, c>> \in sseClients
                      /\ conn'[c].received = Append(conn[c].received, e.data)
          ELSE conn'[c].received = <<Connected>>]_vars

C17_Witness ==
  \E e \in published : \E c \in 1..Len(conn) :
    /\ e.client = NoClient
    /\ <<e.user, c>> \in sseClients
    /\ conn[c].st = "open"
    /\ conn[c].received = <<Connected>>

\* C18: a stored status other than processing belongs to an invoice whose
\* background task has run past generatePDF, and every update that was sent
\* names an invoice whose stored status is already the one it announces.
C18_PersistedBeforePublished ==
  /\ \A i \in 1..Len(invoices) :
       invoices[i].status # "processing"
         => job[i].pc \in {"saveFailed", "done", "crashed"}
  /\ \A e \in published :
       /\ e.data.invoiceId \in 1..Len(invoices)
       /\ invoices[e.data.invoiceId].userId = e.user
       /\ invoices[e.data.invoiceId].status = e.data.status

C18_Witness ==
  \E e, f \in published : e.data.status = "ready" /\ f.data.status = "failed"

\* C19: a background task that ended after its catch block ran leaves the
\* invoice stored as failed with no pdfPath, and has sent invoice_failed to
\* the owner.
C19_FailureEndsFailed ==
  \A i \in 1..Len(invoices) :
    (job[i].pc \in {"done", "crashed"} /\ job[i].status = "failed")
      => /\ invoices[i].status = "failed"
         /\ invoices[i].pdfPath = NoPath
         /\ \E e \in published :
              /\ e.user = invoices[i].userId
              /\ e.data = Update(i, "failed")

\* C20: every stored invoice eventually has a stored status other than
\* processing.
C20_LeavesProcessing ==
  \A i \in 1..MaxJobs :
    [](i <= Len(invoices) => <>(i <= Len(invoices) /\ invoices[i].status # "processing"))

\* C21: a write of the background task to an invoice whose stored status is
\* already ready or failed leaves the stored status and pdfPath as they are.
C21_CompletionIdempotent ==
  [][\A i \in 1..Len(invoices) :
       invoices[i].status \in {"ready", "failed"}
         => /\ invoices'[i].status = invoices[i].status
            /\ invoices'[i].pdfPath = invoices[i].pdfPath]_vars

\* C22: a POST /api/invoices or GET /api/sse request that carries no token, or
\* a token the server did not sign, changes nothing but its own response: no
\* counter, invoice, task, registry entry or connection, and the request
\* does not enter checkRateLimit.
C22_BadTokenMutatesNothing ==
  [][\A t \in Tokens :
       (~(t.present /\ t.valid)
        /\ (GetSSE(t) \/ \E p \in Procs, d \in JobSteps : PostInvoice(p, t, d)))
         => UNCHANGED <<clock, rateLimits, invoices, req, job, recent,
                        files, sseClients, conn, published>>]_vars

C22_Witness ==
  /\ \E p \in Procs : resp[p].code = 403
  /\ out.op = "sse" /\ out.code \in {401, 403}
  /\ \E c \in 1..Len(conn) : <<out.user, c>> \in sseClients
  /\ \E i \in 1..Len(rateLimits) : rateLimits[i].count > 0
  /\ Len(invoices) > 0

\* C23: when a request is answered 201 its invoice has just been stored with
\* status processing and its background task is scheduled but has not run;
\* no step of a background task changes a response.
C23_AnswersBeforeWork ==
  [][/\ \A p \in Procs :
          (resp'[p].code = 201 /\ resp'[p] # resp[p])
            => /\ Len(invoices') = Len(invoices) + 1
               /\ invoices'[Len(invoices')].userId = req[p].user
               /\ invoices'[Len(invoices')].status = "processing"
               /\ invoices'[Len(invoices')].pdfPath = NoPath
               /\ job'[Len(job')].pc = "scheduled"
     /\ \A i \in JobIds : JobStep(i) => resp' = resp]_vars

C23_Witness ==
  /\ Len(invoices) = 1
  /\ invoices[1].status = "failed"
  /\ job[1].pc = "done"
  /\ \E p \in Procs : resp[p].code = 201

\* the updates about invoice i among the events written to connection c
EventsAbout(c, i) ==
  {k \in 1..Len(conn[c].received) : conn[c].received[k].invoiceId = i}

\* C24: when a background task ends with invoice_ready while the owner's most
\* recent connection is open and was opened before the task started, the
\* update is written to that connection (updates whose write throws aside);
\* a connection is never written two updates about one invoice; at most one
\* update is ever sent per invoice, and its status is the stored status.
C24_ExactlyOneReady ==
  [][/\ \A e \in Sent :
          (/\ e.data.status = "ready"
           /\ ConnsOf(e.user) # {}
           /\ conn[Newest(e.user)].st = "open"
           /\ ~(e.data.invoiceId \in conn[Newest(e.user)].started)
           /\ sseClients' = sseClients)
            => /\ conn'[Newest(e.user)].received =
                    Append(conn[Newest(e.user)].received, e.data)
               /\ EventsAbout(Newest(e.user), e.data.invoiceId) = {}
     /\ \A e \in Sent :
          /\ invoices'[e.data.invoiceId].status = e.data.status
          /\ \A f \in published : f.data.invoiceId # e.data.invoiceId]_vars

\* C25: the renderer runs at most once per invoice: when the attempt started
\* by the timer ends, the task either saves the invoice as ready or, if the
\* attempt failed, goes on to save it as failed; it never starts another
\* attempt.
C25_RenderedOnce ==
  [][\A i \in JobIds :
       (job[i].pc = "render" /\ job'[i].pc # "render")
         => \/ job'[i].pc = "saveReady" /\ job'[i].status = "ready"
            \/ job'[i].pc = "saveFailed" /\ job'[i].status = "failed"]_vars

\* C26: when the dashboard's EventSource is open again after it had been
\* lost, and the page shows an invoice with a status other than the stored
\* one, a request for the invoice list is under way.
C26_RefetchOnReconnect ==
  [][(/\ dash.es # 0 /\ dash.readyState # "open" /\ dash'.readyState = "open"
      /\ \E i \in DOMAIN dash.shown : dash.shown[i] # invoices[i].status)
       => dash'.fetching]_vars

\* C27: when an update is sent for a user with a registered stream and the
\* write fails (nothing is written to the stream), the background task still
\* ends normally with the status it saved, and the user has no entry in
\* sseClients afterwards.
C27_WriteFailureDeregisters ==
  [][\A e \in Sent :
       (e.client # NoClient
        /\ conn'[e.client].received = conn[e.client].received)
         => /\ ~ \E x \in sseClients' : x[1] = e.user
            /\ job'[e.data.invoiceId].pc = "done"
            /\ job'[e.data.invoiceId].status = e.data.status
            /\ invoices'[e.data.invoiceId].status = e.data.status
            /\ conn' = conn]_vars

C27_Witness ==
  \E e \in published :
    /\ e.client # NoClient
    /\ conn[e.client].st = "open"
    /\ \A k \in 1..Len(conn[e.client].received) : conn[e.client].received[k] # e.data
    /\ ~ \E x \in sseClients : x[1] = e.user
    /\ job[e.data.invoiceId].pc = "done"

\* C28: every update written to a connection is about an invoice of the user
\* the connection was opened for, and every update is sent under the user id
\* of the invoice's owner, to a stream of that user or to none.
C28_NoCrossUserDelivery ==
  /\ \A c \in 1..Len(conn) : \A k \in 1..Len(conn[c].received) :
       conn[c].received[k] # Connected
         => /\ conn[c].received[k].invoiceId \in 1..Len(invoices)
            /\ invoices[conn[c].received[k].invoiceId].userId = conn[c].user
  /\ \A e \in published :
       /\ e.user = invoices[e.data.invoiceId].userId
       /\ e.client # NoClient => conn[e.client].user = e.user

C28_Witness ==
  \E a, b \in 1..Len(conn) : \E e \in published :
    /\ conn[a].user # conn[b].user
    /\ conn[a].user = e.user
    /\ e.client = a
    /\ conn[a].received = <<Connected, e.data>>
    /\ conn[b].st = "open"
    /\ <<conn[b].user, b>> \in sseClients
    /\ conn[b].received = <<Connected>>

\* C29: every entry of sseClients is the stream of a connection of that user
\* for which neither the close nor the error handler has run.
C29_RegisteredAreConnected ==
  \A x \in sseClients :
    /\ x[2] \in 1..Len(conn)
    /\ conn[x[2]].user = x[1]
    /\ conn[x[2]].st = "open"

C29_Witness ==
  \E c, d \in 1..Len(conn) :
    /\ conn[c].user = conn[d].user
    /\ conn[c].st = "closed"
    /\ c < d
    /\ <<conn[d].user, d>> \in sseClients

\* the sum of the amount fields of a sequence of line items
RECURSIVE SumOfAmounts(_)
SumOfAmounts(items) ==
  IF items = <<>> THEN 0 ELSE Head(items).amount + SumOfAmounts(Tail(items))

\* C30: the payload the form submits has subtotal equal to the sum of the
\* amounts of the line items in that payload, and total = subtotal + tax.
C30_PayloadConsistent ==
  form.submitted
    => /\ form.payload.subtotal = SumOfAmounts(form.payload.lineItems)
       /\ form.payload.total = form.payload.subtotal + form.payload.tax

====
